---- MODULE Spec2Model ----
(***************************************************************************)
(* Session layer of granada: Session (session.cc), its variants            *)
(* SimpleSession / StorageSession and the store SharedMapSessionHandler.   *)
(*                                                                         *)
(* Time is std::time(nullptr): whole seconds, the variable now.            *)
(* A session object is the record of the fields the lifecycle reads:       *)
(* token_, update_time_, session_timeout_.  The empty std::string is "".   *)
(***************************************************************************)
EXTENDS Integers, Sequences, FiniteSets, TLC

\* ------------------------------------------------------------------ bounds
MaxTime == 2          \* the clock stops ticking at MaxTime
MaxProbe == 7         \* largest clock value and timeout IsTimedOut is probed with
MaxExtra == 2         \* largest extra_seconds IsTimedOut is probed with

Tokens == {"t1", "t2"}                \* the strings the nonce generator returns
NoToken == ""                         \* std::string(), token_.empty()
AllTokens == Tokens \cup {NoToken}

Variants == {"SimpleSession", "StorageSession"}
Objs == {"a", "b"}                    \* session objects held by callers

\* values of the property session_timeout
Timeouts == {-1, 0, 1}

\* strings of granada/defaults.h: the names of the token supports and of the
\* property that selects one, the default second support, the default label
session_cookie == "cookie"
session_query == "query"
session_json == "json"
session_token_support == "session_token_support"
session_second_token_support == "query"
session_token_label == "token"

\* Session::DEFAULT_SESSIONS_TOKEN_SUPPORT
DEFAULT_SESSIONS_TOKEN_SUPPORT == <<session_token_support, session_second_token_support>>

\* values of the property session_token_support; "" is "not configured"
Supports == {"", session_cookie, session_query, session_json}

NoSession == [token |-> "<none>"]     \* sessions_->find(token) == sessions_->end()
Times == 0..MaxTime

VARIABLES
  now,        \* std::time(nullptr)
  props,      \* the application properties read by LoadProperties
  obj,        \* the session objects of the callers
  sessions,   \* per handler instance: sessions_, token -> snapshot
  mtx,        \* the handler's std::mutex: the thread that holds it, or Free
  thr,        \* per request thread: where it is inside a handler operation
  hist,       \* history: per handler and token, last Update() of an open session
  acq,        \* history: per token, the snapshot of the SaveSession that locked last
  last        \* history: the operation just run and what it returned

vars == <<now, props, obj, sessions, mtx, thr, hist, acq, last>>

\* ------------------------------------------------------- Session predicates
\* granada::util::time::is_timedout (granada/util/time.h)
is_timedout(update_time, timeout, extra_seconds, clock) ==
  (clock - update_time) > timeout + extra_seconds

\* mutant: the negative timeout is not special-cased
IsTimedOutNoNever(s, extra_seconds, clock) ==
  is_timedout(s.update_time, s.session_timeout, extra_seconds, clock)

\* mutant: a timeout of 0 is taken for "never expires" too
IsTimedOutZeroNever(s, extra_seconds, clock) ==
  IF s.session_timeout <= 0
    THEN FALSE
    ELSE is_timedout(s.update_time, s.session_timeout, extra_seconds, clock)

\* Session::IsTimedOut(extra_seconds)
IsTimedOutExtra(s, extra_seconds, clock) ==
  IF s.session_timeout < 0
    THEN FALSE
    ELSE is_timedout(s.update_time, s.session_timeout, extra_seconds, clock)

\* Session::IsTimedOut()
IsTimedOut(s, clock) == IsTimedOutExtra(s, 0, clock)

\* Session::IsValid(), SimpleSession::IsValid()
IsValid(s, clock) == ~IsTimedOut(s, clock)

\* mutant: a session is garbage a second after it stopped being valid
IsGarbageLater(s, clock) == IsTimedOutExtra(s, 1, clock)

\* Session::IsGarbage(), SimpleSession::IsGarbage()
IsGarbage(s, clock) == ~IsValid(s, clock)

\* ------------------------------------------- SharedMapSessionHandler (one map)
EmptyMap == [t \in AllTokens |-> NoSession]

\* SharedMapSessionHandler::SessionExists, between mtx.lock() and mtx.unlock()
SessionExistsLocked(m, token) == m[token] # NoSession

\* SharedMapSessionHandler::SessionExists
SessionExists(m, token) ==
  IF token # NoToken THEN SessionExistsLocked(m, token) ELSE FALSE

\* SharedMapSessionHandler::LoadSession, between mtx.lock() and mtx.unlock():
\* the value of *virgin after; virgin->set(session) is (*this) = (*session), the
\* fields are copied into the caller's object
HandlerLoadSessionLocked(m, token, virgin, clock) ==
  IF m[token] # NoSession
    THEN IF IsValid(m[token], clock) THEN [m[token] EXCEPT !.this = virgin.this] ELSE virgin
    ELSE virgin

\* SharedMapSessionHandler::LoadSession(token, virgin): the value of *virgin after
HandlerLoadSession(m, token, virgin, clock) ==
  IF token # NoToken
    THEN HandlerLoadSessionLocked(m, token, virgin, clock)
    ELSE virgin

\* mutant: SaveSession without the test for the empty token
SaveSessionNoCheck(m, session) == [m EXCEPT ![session.token] = session]

\* mutant: the map keeps the snapshot it has (insert() in place of operator[])
SaveSessionInsertOnly(m, session) ==
  IF m[session.token] = NoSession THEN [m EXCEPT ![session.token] = session] ELSE m

\* SharedMapSessionHandler::SaveSession, between mtx.lock() and mtx.unlock()
SaveSessionLocked(m, session) == [m EXCEPT ![session.token] = session]

\* SharedMapSessionHandler::SaveSession
SaveSession(m, session) ==
  IF session.token # NoToken
    THEN SaveSessionLocked(m, session)
    ELSE m

\* SharedMapSessionHandler::DeleteSession, between mtx.lock() and mtx.unlock()
DeleteSessionLocked(m, session) == [m EXCEPT ![session.token] = NoSession]

\* SharedMapSessionHandler::DeleteSession
DeleteSession(m, session) ==
  IF session.token # NoToken
    THEN DeleteSessionLocked(m, session)
    ELSE m

\* ------------------------------------------------------- Session lifecycle
\* A lifecycle operation returns [m, s, ok, closed]: the map and the object
\* after it, its result, and its runs of Close(), in order: each run calls
\* close_callbacks()->CallAll(to_json()) and roles()->RemoveAll(), and is put
\* down as the token the session held.

\* Session objects live at an address, the field this: the objects the callers
\* hold at their own name, an object made by new (owned by a shared_ptr) at New.
New == "new"

\* the object s, placed at address o
At(s, o) == [s EXCEPT !.this = o]

\* a session object after its constructor ran LoadProperties
NewSession(variant, p) ==
  [variant |-> variant, token |-> NoToken, update_time |-> 0,
   session_timeout |-> p.session_timeout,
   session_token_support_ |-> p.session_token_support,
   this |-> New]

\* mutant: Update() as Session::Update has it, the save left out
UpdateNoSave(m, s, clock) ==
  [m |-> m, s |-> [s EXCEPT !.update_time = clock], ok |-> TRUE, closed |-> <<>>]

\* mutant: Update() saves the copy without refreshing update_time_
UpdateNoRefresh(m, s, clock) ==
  [m |-> SaveSession(m, At(s, New)), s |-> s, ok |-> TRUE, closed |-> <<>>]

\* mutant: Update() saves the object itself, not a copy (SaveSession(this))
UpdateSaveThis(m, s, clock) ==
  LET s1 == [s EXCEPT !.update_time = clock]
  IN [m |-> SaveSession(m, s1), s |-> s1, ok |-> TRUE, closed |-> <<>>]

\* SimpleSession::Update, StorageSession::Update: the shared_ptr saved owns a
\* new object, *simple_session_ptr = *this copies the fields into it
Update(m, s, clock) ==
  LET s1 == [s EXCEPT !.update_time = clock]
  IN [m |-> SaveSession(m, At(s1, New)), s |-> s1, ok |-> TRUE, closed |-> <<>>]

\* mutant: Close() returns at once when the store has no entry for the session
CloseIfStored(m, s) ==
  IF SessionExists(m, s.token)
    THEN [m |-> DeleteSession(m, s), s |-> s, ok |-> TRUE, closed |-> <<s.token>>]
    ELSE [m |-> m, s |-> s, ok |-> TRUE, closed |-> <<>>]

\* Session::Close
Close(m, s) ==
  [m |-> DeleteSession(m, s), s |-> s, ok |-> TRUE, closed |-> <<s.token>>]

\* Session::LoadSession(token)
LoadSession(m, s, token, clock) ==
  IF token # NoToken
    THEN LET s1 == HandlerLoadSession(m, token, s, clock)
         IN IF s1.token # NoToken
              THEN Update(m, s1, clock)
              ELSE [m |-> m, s |-> s1, ok |-> FALSE, closed |-> <<>>]
    ELSE [m |-> m, s |-> s, ok |-> FALSE, closed |-> <<>>]

\* mutant: the generated token is taken without the SessionExists() test
OpenNoTest(m, s, gen, clock) ==
  LET c == Close(m, s)
      u == Update(c.m, [c.s EXCEPT !.token = Head(gen)], clock)
  IN [u EXCEPT !.closed = c.closed, !.ok = Len(gen) = 1]

\* Session::Open, with gen the tokens GenerateToken() returns, in order.
\* ok is FALSE when gen ran out while Open() was still retrying.
RECURSIVE Open(_, _, _, _)
Open(m, s, gen, clock) ==
  LET c == Close(m, s)
      s1 == [c.s EXCEPT !.token = Head(gen)]
  IN IF SessionExists(c.m, s1.token)
       THEN IF Len(gen) > 1
              THEN LET r == Open(c.m, s1, Tail(gen), clock)
                   IN [r EXCEPT !.closed = c.closed \o r.closed]
              ELSE [m |-> c.m, s |-> s1, ok |-> FALSE, closed |-> c.closed]
       ELSE IF Len(gen) = 1
              THEN LET u == Update(c.m, s1, clock)
                   IN [u EXCEPT !.closed = c.closed]
              ELSE [m |-> c.m, s |-> s1, ok |-> FALSE, closed |-> c.closed]

\* ------------------------------------------------ token in the HTTP request
\* A request is [cookie, query, json]:
\*   cookie  NoHeader, or {h}, h the Cookie header as the sequence of its
\*           ';'-separated items, each <<name, content>>
\*   query   the query string as the sequence of its '&'-separated items, each
\*           the sequence of its '='-separated parts
\*   json    NoJson (the body is no JSON object), or {b}, b the set of the fields
\*           of the body's object, each <<name, type, value>>
NoHeader == {}
NoJson == {}

\* granada::http::parser::ParseCookies: the map name -> content, as the set of
\* its pairs; insert() keeps the first content of a name
ParseCookies(request) ==
  IF request.cookie = NoHeader
    THEN {}
    ELSE LET cookies_str == CHOOSE h \in request.cookie : TRUE
         IN {cookies_str[i] : i \in {j \in 1..Len(cookies_str) :
               \A k \in 1..(j - 1) : cookies_str[k][1] # cookies_str[j][1]}}

\* mutant: the Set-Cookie header is added whatever the token support
OpenResponseAlways(m, s, gen, clock) ==
  LET r == Open(m, s, gen, clock)
  IN r @@ [set_cookie |-> {<<session_token_label, r.s.token, "path=/">>}]

\* Session::Open(response): the response gets the Set-Cookie header
OpenResponse(m, s, gen, clock) ==
  LET add(r) == r @@ [set_cookie |-> IF s.session_token_support_ = session_cookie
                                       THEN {<<session_token_label, r.s.token, "path=/">>}
                                       ELSE {}]
  IN add(Open(m, s, gen, clock))

\* the while (len--) loop of Session::LoadSession(request): the index of the
\* last item of the query with more than one part and the label as its key, or 0
RECURSIVE QueryTokenAt(_, _)
QueryTokenAt(query, len) ==
  IF len = 0 THEN 0
  ELSE IF Len(query[len]) > 1 /\ query[len][1] = session_token_label
         THEN len
         ELSE QueryTokenAt(query, len - 1)

\* Session::LoadSession(request); ret is the value returned, tok the token
\* taken from the request (NoToken: none was found)
LoadSessionRequest(m, s, request, clock) ==
  LET s1 == IF s.session_token_support_ = ""
              THEN [s EXCEPT !.session_token_support_ = DEFAULT_SESSIONS_TOKEN_SUPPORT[2]]
              ELSE s
      none == [m |-> m, s |-> s1, ok |-> TRUE, closed |-> <<>>, ret |-> FALSE, tok |-> NoToken]
      returned(r, token) == [m |-> r.m, s |-> r.s, ok |-> TRUE, closed |-> <<>>,
                             ret |-> r.ok, tok |-> token]
      load(token) == returned(LoadSession(m, s1, token, clock), token)
  IN IF s1.session_token_support_ = session_json
       THEN IF \E b \in request.json :
                   \E f \in b : f[1] = session_token_label /\ f[2] = "string"
              THEN load((CHOOSE f \in UNION request.json : f[1] = session_token_label)[3])
              ELSE none
       ELSE IF s1.session_token_support_ = session_query
              THEN LET i == QueryTokenAt(request.query, Len(request.query))
                   IN IF i > 0 THEN load(request.query[i][2]) ELSE none
              ELSE none

\* mutant: the cookie flow reports success without opening a session
LoadSessionRequestResponseNoOpen(m, s, request, gen, clock) ==
  LET r == LoadSessionRequest(m, s, request, clock)
  IN [m |-> r.m, s |-> r.s, ok |-> gen = <<>>, closed |-> <<>>, ret |-> TRUE,
      tok |-> r.tok, set_cookie |-> {}]

\* Session::LoadSession(request, response); gen is what GenerateToken() returns
\* to the Open(response) of this call, in order (ok: gen was used up, and is
\* empty when no session was opened)
LoadSessionRequestResponse(m, s, request, gen, clock) ==
  LET s1 == IF s.session_token_support_ = ""
              THEN [s EXCEPT !.session_token_support_ = DEFAULT_SESSIONS_TOKEN_SUPPORT[1]]
              ELSE s
  IN IF s1.session_token_support_ = session_cookie
       THEN LET cookies == ParseCookies(request)
                found == {c \in cookies : c[1] = session_token_label}
                token == IF found # {} THEN (CHOOSE c \in found : TRUE)[2] ELSE NoToken
                after(l) ==
                  IF ~l.ok
                    THEN IF gen # <<>>
                           THEN OpenResponse(l.m, l.s, gen, clock)
                                  @@ [ret |-> TRUE, tok |-> token]
                           ELSE [m |-> l.m, s |-> l.s, ok |-> FALSE, closed |-> <<>>,
                                 ret |-> TRUE, tok |-> token, set_cookie |-> {}]
                    ELSE [m |-> l.m, s |-> l.s, ok |-> gen = <<>>, closed |-> <<>>,
                          ret |-> TRUE, tok |-> token, set_cookie |-> {}]
            IN after(IF found # {}
                       THEN LoadSession(m, s1, token, clock)
                       ELSE [m |-> m, s |-> s1, ok |-> FALSE, closed |-> <<>>])
       ELSE [LoadSessionRequest(m, s1, request, clock) EXCEPT !.ok = gen = <<>>]
              @@ [set_cookie |-> {}]

\* mutant: the scan collects the garbage, Close() is run on none of it
CleanSessionsNoClose(m, clock) == m

\* mutant: the scan collects every session, the IsGarbage() test left out
CleanSessionsNoTest(m, clock) == [t \in AllTokens |-> NoSession]

\* SharedMapSessionHandler::CleanSessions(), run with no other thread in between:
\* the scan collects the garbage snapshots, then Close() runs on each of them.
CleanSessions(m, clock) ==
  LET sessions_to_erase == {m[k] : k \in {t \in AllTokens : m[t] # NoSession /\ IsGarbage(m[t], clock)}}
  IN [t \in AllTokens |->
        IF t # NoToken /\ \E s \in sessions_to_erase : s.token = t
          THEN NoSession
          ELSE m[t]]

\* --------------------------------------------------------------- history
\* hist[v][t] = {u}: token t was minted by an Open() on handler v, no Close() and
\* no direct store call was made for t since, and its last Update() ran at u.
\* hist[v][t] = {} otherwise.
NotOpen == {}

HistClosed(h, toks) == [t \in AllTokens |-> IF t \in toks THEN NotOpen ELSE h[t]]
HistUpdated(h, t, clock) == IF h[t] # NotOpen THEN [h EXCEPT ![t] = {clock}] ELSE h
HistOpened(h, prev, t, clock) == [HistClosed(h, {prev}) EXCEPT ![t] = {clock}]

Result(op, o, tok, ok) == [op |-> op, o |-> o, tok |-> tok, ok |-> ok]

\* the tokens one Open() may draw from GenerateToken(): every collision erases the
\* colliding entry, so an Open() draws at most one token more than are stored
MaxGen == Cardinality(Tokens) + 1
RECURSIVE GenSeqs(_)
GenSeqs(n) ==
  IF n = 0 THEN {<<>>}
  ELSE LET shorter == GenSeqs(n - 1)
       IN shorter \cup {Append(g, t) : g \in {x \in shorter : Len(x) = n - 1}, t \in Tokens}
Generated == GenSeqs(MaxGen) \ {<<>>}

\* mutant: the session classes share one handler instance
VariantOfShared(o) == "SimpleSession"

\* session_handler() of the class of o: the handler instance of its variant
VariantOf(o) == obj[o].variant

Free == "free"                        \* mtx is unlocked
Idle == [pc |-> "idle", op |-> "-"]   \* the thread is in no handler operation

\* no thread is inside a handler operation
Quiet ==
  /\ mtx = Free
  /\ thr = [p \in Objs |-> Idle]
  /\ acq = [t \in AllTokens |-> {}]

\* ---------------------------------------------------------------- actions
Init ==
  /\ now = 0
  /\ props \in [session_timeout : Timeouts, session_token_support : {session_cookie}]
  /\ obj = [o \in Objs |-> At(NewSession("SimpleSession", props), o)]
  /\ sessions = [v \in Variants |-> EmptyMap]
  /\ hist = [v \in Variants |-> [t \in AllTokens |-> NotOpen]]
  /\ last = Result("Init", "-", NoToken, TRUE)
  /\ Quiet

\* a second of wall-clock time passes
Tick ==
  /\ now < MaxTime
  /\ now' = now + 1
  /\ last' = Result("Tick", "-", NoToken, TRUE)
  /\ UNCHANGED <<mtx, thr, acq, props, obj, sessions, hist>>

\* SimpleSession(), StorageSession(): a caller constructs a new session object
Construct(o) ==
  /\ obj' = [obj EXCEPT ![o] = At(NewSession(VariantOf(o), props), o)]
  /\ last' = Result("Construct", o, NoToken, TRUE)
  /\ UNCHANGED <<mtx, thr, acq, now, props, sessions, hist>>

\* Session::Open() on a caller's object; last.closed are the runs of Close(): the
\* token held at the call, then each token drawn and found taken
OpenAct(o) ==
  \E v \in {VariantOf(o)} :
    \E r \in {x \in {Open(sessions[v], obj[o], gen, now) : gen \in Generated} : x.ok} :
       /\ obj' = [obj EXCEPT ![o] = r.s]
       /\ sessions' = [sessions EXCEPT ![v] = r.m]
       /\ hist' = [hist EXCEPT ![v] = HistOpened(@, obj[o].token, r.s.token, now)]
       /\ last' = [op |-> "Open", o |-> o, tok |-> r.s.token, ok |-> TRUE, closed |-> r.closed]
       /\ UNCHANGED <<mtx, thr, acq, now, props>>

\* Update() on a caller's object
UpdateAct(o) ==
  \E v \in {VariantOf(o)} : \E r \in {Update(sessions[v], obj[o], now)} :
     /\ obj' = [obj EXCEPT ![o] = r.s]
     /\ sessions' = [sessions EXCEPT ![v] = r.m]
     /\ hist' = [hist EXCEPT ![v] = HistUpdated(@, r.s.token, now)]
     /\ last' = Result("Update", o, r.s.token, TRUE)
     /\ UNCHANGED <<mtx, thr, acq, now, props>>

\* Close() on a caller's object; last.closed are the runs of the callbacks and of
\* RemoveAll(), last.erased tells whether DeleteSession found an entry to erase
CloseAct(o) ==
  \E v \in {VariantOf(o)} : \E r \in {Close(sessions[v], obj[o])} :
     /\ obj' = [obj EXCEPT ![o] = r.s]
     /\ sessions' = [sessions EXCEPT ![v] = r.m]
     /\ hist' = [hist EXCEPT ![v] = HistClosed(@, {obj[o].token})]
     /\ last' = [op |-> "Close", o |-> o, tok |-> obj[o].token, ok |-> TRUE,
                 closed |-> r.closed, erased |-> r.m # sessions[v]]
     /\ UNCHANGED <<mtx, thr, acq, now, props>>

\* Session::LoadSession(token) on a caller's object
LoadSessionAct(o, token) ==
  \E v \in {VariantOf(o)} : \E r \in {LoadSession(sessions[v], obj[o], token, now)} :
     /\ obj' = [obj EXCEPT ![o] = r.s]
     /\ sessions' = [sessions EXCEPT ![v] = r.m]
     /\ hist' = [hist EXCEPT ![v] = IF r.ok THEN HistUpdated(@, r.s.token, now) ELSE @]
     /\ last' = Result("LoadSession", o, token, r.ok)
     /\ UNCHANGED <<mtx, thr, acq, now, props>>

\* direct calls of the public operations of the handler of o's class
SessionExistsAct(o, token) ==
  /\ last' = Result("SessionExists", o, token, SessionExists(sessions[VariantOf(o)], token))
  /\ UNCHANGED <<mtx, thr, acq, now, props, obj, sessions, hist>>

HandlerLoadSessionAct(o, token) ==
  /\ obj' = [obj EXCEPT ![o] = HandlerLoadSession(sessions[VariantOf(o)], token, obj[o], now)]
  /\ last' = Result("HandlerLoadSession", o, token, TRUE)
  /\ UNCHANGED <<mtx, thr, acq, now, props, sessions, hist>>

\* SaveSession with a copy of o that carries token and an update time not after now
SaveSessionAct(o, token, update_time) ==
  LET session == [At(obj[o], New) EXCEPT !.token = token, !.update_time = update_time]
  IN /\ sessions' = [sessions EXCEPT ![VariantOf(o)] = SaveSession(@, session)]
     /\ hist' = [hist EXCEPT ![VariantOf(o)] = HistClosed(@, {token})]
     /\ last' = Result("SaveSession", o, token, TRUE)
     /\ UNCHANGED <<mtx, thr, acq, now, props, obj>>

\* DeleteSession with a copy of o that carries token
DeleteSessionAct(o, token) ==
  LET session == [obj[o] EXCEPT !.token = token]
  IN /\ sessions' = [sessions EXCEPT ![VariantOf(o)] = DeleteSession(@, session)]
     /\ hist' = [hist EXCEPT ![VariantOf(o)] = HistClosed(@, {token})]
     /\ last' = Result("DeleteSession", o, token, TRUE)
     /\ UNCHANGED <<mtx, thr, acq, now, props, obj>>

\* one sweep of the handler of o's class, by its background task or a direct call;
\* last.ok tells whether the sweep closed any session
CleanSessionsAct(o) ==
  \E v \in {VariantOf(o)} : \E m \in {CleanSessions(sessions[v], now)} :
   \E gone \in {{t \in AllTokens : m[t] # sessions[v][t]}} :
     /\ sessions' = [sessions EXCEPT ![v] = m]
     /\ hist' = [hist EXCEPT ![v] = HistClosed(@, gone)]
     /\ last' = Result("CleanSessions", o, NoToken, gone # {})
     /\ UNCHANGED <<mtx, thr, acq, now, props, obj>>

\* the session lifecycle, as the callers of the session classes drive it
Next ==
  \/ Tick
  \/ \E o \in Objs : Construct(o)
  \/ \E o \in Objs : OpenAct(o)
  \/ \E o \in Objs : UpdateAct(o)
  \/ \E o \in Objs : CloseAct(o)
  \/ \E o \in Objs, t \in AllTokens : LoadSessionAct(o, t)
  \/ \E o \in Objs : CleanSessionsAct(o)

Spec == Init /\ [][Next]_vars

\* the public operations of one SharedMapSessionHandler, called directly
NextHandler ==
  \/ Tick
  \/ \E o \in Objs : Construct(o)
  \/ \E o \in Objs, t \in AllTokens : SessionExistsAct(o, t)
  \/ \E o \in Objs, t \in AllTokens : HandlerLoadSessionAct(o, t)
  \/ \E o \in Objs, t \in AllTokens, u \in 0..now : SaveSessionAct(o, t, u)
  \/ \E o \in Objs, t \in AllTokens : DeleteSessionAct(o, t)
  \/ \E o \in Objs : CleanSessionsAct(o)

SpecHandler == Init /\ [][NextHandler]_vars

\* Session::IsTimedOut(extra_seconds) on its own: a session last updated at any
\* time up to now, under any timeout, is asked whether it is timed out
InitTimedOut ==
  /\ now \in 0..MaxProbe
  /\ props \in [session_timeout : (-1)..MaxProbe, session_token_support : {session_cookie}]
  /\ \E u \in 0..now :
       obj = [o \in Objs |->
                [At(NewSession("SimpleSession", props), o) EXCEPT !.update_time = u]]
  /\ sessions = [v \in Variants |-> EmptyMap]
  /\ hist = [v \in Variants |-> [t \in AllTokens |-> NotOpen]]
  /\ last = Result("Init", "-", NoToken, TRUE)
  /\ Quiet

IsTimedOutAct(o, extra_seconds) ==
  /\ last' = [op |-> "IsTimedOut", o |-> o, tok |-> NoToken,
              ok |-> IsTimedOutExtra(obj[o], extra_seconds, now),
              extra |-> extra_seconds]
  /\ UNCHANGED <<mtx, thr, acq, now, props, obj, sessions, hist>>

NextTimedOut == \E o \in Objs, e \in 0..MaxExtra : IsTimedOutAct(o, e)

SpecTimedOut == InitTimedOut /\ [][NextTimedOut]_vars

\* the first second passes
FirstTick == now = 0 /\ Tick

\* ------------------------------------------- callers change their objects
\* the maps after the object at address o got the value s: every pointer to the
\* object shows the change
WriteAt(ms, o, s) ==
  [v \in Variants |->
     [t \in AllTokens |->
        IF ms[v][t] # NoSession /\ ms[v][t].this = o THEN s ELSE ms[v][t]]]

\* Session::SetToken on a caller's object
SetTokenAct(o, token) ==
  /\ obj' = [obj EXCEPT ![o].token = token]
  /\ sessions' = WriteAt(sessions, o, obj'[o])
  /\ last' = Result("SetToken", o, token, TRUE)
  /\ UNCHANGED <<mtx, thr, acq, now, props, hist>>

\* Session::SetUpdateTime on a caller's object
SetUpdateTimeAct(o, update_time) ==
  /\ obj' = [obj EXCEPT ![o].update_time = update_time]
  /\ sessions' = WriteAt(sessions, o, obj'[o])
  /\ last' = Result("SetUpdateTime", o, obj[o].token, TRUE)
  /\ UNCHANGED <<mtx, thr, acq, now, props, hist>>

\* Session::set(token, update_time) on a caller's object
SetAct(o, token, update_time) ==
  /\ obj' = [obj EXCEPT ![o].token = token, ![o].update_time = update_time]
  /\ sessions' = WriteAt(sessions, o, obj'[o])
  /\ last' = Result("set", o, token, TRUE)
  /\ UNCHANGED <<mtx, thr, acq, now, props, hist>>

\* sessions that never expire, held, changed and saved by their callers
InitSnapshot == Init /\ props.session_timeout = -1

NextSnapshot ==
  \/ FirstTick
  \/ \E o \in Objs : OpenAct(o)
  \/ \E o \in Objs : UpdateAct(o)
  \/ \E o \in Objs, t \in AllTokens : LoadSessionAct(o, t)
  \/ \E o \in Objs, t \in AllTokens : SetTokenAct(o, t)
  \/ \E o \in Objs, u \in 0..now : SetUpdateTimeAct(o, u)
  \/ \E o \in Objs, t \in AllTokens, u \in 0..now : SetAct(o, t, u)

SpecSnapshot == InitSnapshot /\ [][NextSnapshot]_vars

\* ------------------------------------------------------- both variants
\* one caller holds a SimpleSession, the other a StorageSession; sessions time
\* out a second after their last update
InitVariants ==
  /\ now = 0
  /\ props \in [session_timeout : {0}, session_token_support : {session_cookie}]
  /\ obj = [o \in Objs |->
              At(NewSession(IF o = "a" THEN "SimpleSession" ELSE "StorageSession", props), o)]
  /\ sessions = [v \in Variants |-> EmptyMap]
  /\ hist = [v \in Variants |-> [t \in AllTokens |-> NotOpen]]
  /\ last = Result("Init", "-", NoToken, TRUE)
  /\ Quiet

NextVariants ==
  \/ FirstTick
  \/ \E o \in Objs : OpenAct(o)
  \/ \E o \in Objs : UpdateAct(o)
  \/ \E o \in Objs : CloseAct(o)
  \/ \E o \in Objs, t \in AllTokens : LoadSessionAct(o, t)
  \/ \E o \in Objs, t \in AllTokens : SessionExistsAct(o, t)
  \/ \E o \in Objs : CleanSessionsAct(o)

SpecVariants == InitVariants /\ [][NextVariants]_vars

\* ------------------------------------------------- token in the request
\* the requests: nothing anywhere; a token in every part; an empty or ill-typed
\* token; several items with the label or with another name
Requests ==
  {[cookie |-> NoHeader, query |-> <<>>, json |-> NoJson]}
    \cup {[cookie |-> {<<<<session_token_label, t>>>>},
           query |-> <<<<session_token_label, t>>>>,
           json |-> {{<<session_token_label, "string", t>>}}] : t \in Tokens}
    \cup {[cookie |-> {<<<<session_token_label, NoToken>>>>},
           query |-> <<<<session_token_label>>, <<"other", "t1">>>>,
           json |-> {{<<session_token_label, "number", "1">>, <<"other", "string", "t1">>}}],
          [cookie |-> {<<<<"other", "t2">>, <<session_token_label, "t1">>,
                        <<session_token_label, "t2">>>>},
           query |-> <<<<session_token_label, "t2">>, <<session_token_label, "t1">>,
                       <<"other", "t2">>>>,
           json |-> {{<<"other", "string", "t2">>, <<session_token_label, "string", "t1">>}}]}

\* the application is configured with any token support, or with none
InitRequest ==
  /\ now = 0
  /\ props \in [session_timeout : {0, 1}, session_token_support : Supports]
  /\ obj = [o \in Objs |-> At(NewSession("SimpleSession", props), o)]
  /\ sessions = [v \in Variants |-> EmptyMap]
  /\ hist = [v \in Variants |-> [t \in AllTokens |-> NotOpen]]
  /\ last = Result("Init", "-", NoToken, TRUE)
  /\ Quiet

\* Session::LoadSession(request, response) on a caller's object
LoadSessionRequestResponseAct(o, request) ==
  \E v \in {VariantOf(o)} :
    \E r0 \in {LoadSessionRequestResponse(sessions[v], obj[o], request, <<>>, now)} :
     \E gen \in IF r0.ok THEN {<<>>} ELSE Generated :
     \E r \in {LoadSessionRequestResponse(sessions[v], obj[o], request, gen, now)} :
       /\ r.ok
       /\ obj' = [obj EXCEPT ![o] = r.s]
       /\ sessions' = [sessions EXCEPT ![v] = r.m]
       /\ hist' = [hist EXCEPT ![v] =
                     IF r.closed # <<>>
                       THEN HistOpened(@, obj[o].token, r.s.token, now)
                       ELSE IF r.m # sessions[v] THEN HistUpdated(@, r.s.token, now) ELSE @]
       /\ last' = [op |-> "LoadSessionRequestResponse", o |-> o, tok |-> r.tok,
                   ok |-> r.ret, set_cookie |-> r.set_cookie]
       /\ UNCHANGED <<mtx, thr, acq, now, props>>

\* Session::LoadSession(request) on a caller's object
LoadSessionRequestAct(o, request) ==
  \E v \in {VariantOf(o)} :
    \E r \in {LoadSessionRequest(sessions[v], obj[o], request, now)} :
       /\ obj' = [obj EXCEPT ![o] = r.s]
       /\ sessions' = [sessions EXCEPT ![v] = r.m]
       /\ hist' = [hist EXCEPT ![v] =
                     IF r.m # sessions[v] THEN HistUpdated(@, r.s.token, now) ELSE @]
       /\ last' = [op |-> "LoadSessionRequest", o |-> o, tok |-> r.tok,
                   ok |-> r.ret, set_cookie |-> {}]
       /\ UNCHANGED <<mtx, thr, acq, now, props>>

\* Session::Open(response) on a caller's object
OpenResponseAct(o) ==
  \E v \in {VariantOf(o)} :
    \E r \in {x \in {OpenResponse(sessions[v], obj[o], gen, now) : gen \in Generated} : x.ok} :
       /\ obj' = [obj EXCEPT ![o] = r.s]
       /\ sessions' = [sessions EXCEPT ![v] = r.m]
       /\ hist' = [hist EXCEPT ![v] = HistOpened(@, obj[o].token, r.s.token, now)]
       /\ last' = [op |-> "OpenResponse", o |-> o, tok |-> r.s.token, ok |-> TRUE,
                   set_cookie |-> r.set_cookie]
       /\ UNCHANGED <<mtx, thr, acq, now, props>>

\* sessions are opened with a response, and refreshed
NextOpenResponse ==
  \/ Tick
  \/ \E o \in Objs : OpenResponseAct(o)
  \/ \E o \in Objs : UpdateAct(o)
  \/ \E o \in Objs : CloseAct(o)

SpecOpenResponse == InitRequest /\ [][NextOpenResponse]_vars

\* the constructors that take a request: a new object, then the load
NextRequest ==
  \/ Tick
  \/ \E o \in Objs : Construct(o)
  \/ \E o \in Objs, request \in Requests : LoadSessionRequestResponseAct(o, request)
  \/ \E o \in Objs, request \in Requests : LoadSessionRequestAct(o, request)

SpecRequest == InitRequest /\ [][NextRequest]_vars

\* ------------------------------------------------------------ concurrency
\* Request threads call the handler's operations at the same time.  Thread p
\* works on its own session object obj[p]; a call is the steps: the test of the
\* token, mtx.lock(), and the map operation together with mtx.unlock().

\* a handler operation is called; with the empty token it returns at once
\* (last.ok tells whether the call went on to lock mtx)
Call(p, op, session) ==
  /\ thr[p].pc = "idle"
  /\ thr' = IF session.token # NoToken
              THEN [thr EXCEPT ![p] = [pc |-> "lock", op |-> op, session |-> session]]
              ELSE thr
  /\ last' = Result("Call", "-", NoToken, session.token # NoToken)
  /\ UNCHANGED <<now, props, obj, sessions, mtx, hist, acq>>

CallSaveSession(p, token, update_time) ==
  Call(p, "SaveSession",
       [At(obj[p], New) EXCEPT !.token = token, !.update_time = update_time])

CallDeleteSession(p, token) ==
  Call(p, "DeleteSession", [obj[p] EXCEPT !.token = token])

CallSessionExists(p, token) ==
  Call(p, "SessionExists", [obj[p] EXCEPT !.token = token])

\* mutant: mtx.lock() returns although another thread holds mtx
LockNoWait(p) ==
  /\ thr[p].pc = "lock"
  /\ mtx' = p
  /\ thr' = [thr EXCEPT ![p].pc = "locked"]
  /\ UNCHANGED <<now, props, obj, sessions, hist, acq, last>>

\* mtx.lock(): blocks while another thread holds mtx
Lock(p) ==
  /\ thr[p].pc = "lock"
  /\ mtx = Free
  /\ mtx' = p
  /\ thr' = [thr EXCEPT ![p].pc = "locked"]
  /\ acq' = IF thr[p].op = "SaveSession"
              THEN [acq EXCEPT ![thr[p].session.token] = {thr[p].session}]
              ELSE IF thr[p].op = "DeleteSession"
                     THEN [acq EXCEPT ![thr[p].session.token] = {}]
                     ELSE acq
  /\ UNCHANGED <<now, props, obj, sessions, hist, last>>

\* the map operation under the lock, and mtx.unlock()
Locked(p, op) ==
  /\ thr[p].pc = "locked"
  /\ thr[p].op = op
  /\ mtx = p
  /\ mtx' = Free
  /\ thr' = [thr EXCEPT ![p] = Idle]
  /\ UNCHANGED <<now, props, hist, acq>>

SaveSessionCS(p) ==
  /\ Locked(p, "SaveSession")
  /\ sessions' = [sessions EXCEPT ![VariantOf(p)] = SaveSessionLocked(@, thr[p].session)]
  /\ last' = Result("SaveSession", "-", NoToken, TRUE)
  /\ UNCHANGED obj

DeleteSessionCS(p) ==
  /\ Locked(p, "DeleteSession")
  /\ sessions' = [sessions EXCEPT ![VariantOf(p)] = DeleteSessionLocked(@, thr[p].session)]
  /\ last' = Result("DeleteSession", "-", NoToken, TRUE)
  /\ UNCHANGED obj

SessionExistsCS(p) ==
  /\ Locked(p, "SessionExists")
  /\ last' = Result("SessionExists", "-", NoToken,
                    SessionExistsLocked(sessions[VariantOf(p)], thr[p].session.token))
  /\ UNCHANGED <<obj, sessions>>

NextConc ==
  \/ Tick
  \/ \E p \in Objs, t \in AllTokens, u \in 0..now : CallSaveSession(p, t, u)
  \/ \E p \in Objs, t \in AllTokens : CallDeleteSession(p, t)
  \/ \E p \in Objs, t \in AllTokens : CallSessionExists(p, t)
  \/ \E p \in Objs : Lock(p)
  \/ \E p \in Objs : SaveSessionCS(p)
  \/ \E p \in Objs : DeleteSessionCS(p)
  \/ \E p \in Objs : SessionExistsCS(p)

\* the threads' session objects are new and never expire
InitConc == Init /\ props.session_timeout = -1

SpecConc == InitConc /\ [][NextConc]_vars

\* ------------------------------------------------------ concurrent Open()
\* Request threads run Session::Open() at the same time, thread p on its own
\* object obj[p].  Open() is the steps Close(), GenerateToken(), SessionExists()
\* and then Update() or, the token taken, Open() again; each handler operation
\* runs under mtx and is one step.
OpenCall(p) ==
  /\ thr[p].pc = "idle"
  /\ thr' = [thr EXCEPT ![p] = [pc |-> "Close", op |-> "Open"]]
  /\ UNCHANGED <<now, props, obj, sessions, mtx, hist, acq, last>>

\* Close(): callbacks, RemoveAll(), DeleteSession(this)
OpenClose(p) ==
  /\ thr[p].pc = "Close"
  /\ mtx = Free
  /\ sessions' = [sessions EXCEPT ![VariantOf(p)] = Close(@, obj[p]).m]
  /\ thr' = [thr EXCEPT ![p].pc = "GenerateToken"]
  /\ UNCHANGED <<now, props, obj, mtx, hist, acq, last>>

\* token_.assign(session_handler()->GenerateToken())
OpenGenerateToken(p, token) ==
  /\ thr[p].pc = "GenerateToken"
  /\ obj' = [obj EXCEPT ![p].token = token]
  /\ thr' = [thr EXCEPT ![p].pc = "SessionExists"]
  /\ UNCHANGED <<now, props, sessions, mtx, hist, acq, last>>

\* if (session_handler()->SessionExists(token_)) Open(); else Update();
OpenSessionExists(p) ==
  /\ thr[p].pc = "SessionExists"
  /\ mtx = Free
  /\ thr' = [thr EXCEPT ![p].pc = IF SessionExists(sessions[VariantOf(p)], obj[p].token)
                                    THEN "Close"
                                    ELSE "Update"]
  /\ UNCHANGED <<now, props, obj, sessions, mtx, hist, acq, last>>

\* Update(), and Open() returns
OpenUpdate(p) ==
  /\ thr[p].pc = "Update"
  /\ mtx = Free
  /\ \E r \in {Update(sessions[VariantOf(p)], obj[p], now)} :
       /\ obj' = [obj EXCEPT ![p] = r.s]
       /\ sessions' = [sessions EXCEPT ![VariantOf(p)] = r.m]
  /\ thr' = [thr EXCEPT ![p] = Idle]
  /\ last' = Result("Open", p, obj[p].token, TRUE)
  /\ UNCHANGED <<now, props, mtx, hist, acq>>

NextOpenConc ==
  \/ Tick
  \/ \E p \in Objs : OpenCall(p)
  \/ \E p \in Objs : OpenClose(p)
  \/ \E p \in Objs, t \in Tokens : OpenGenerateToken(p, t)
  \/ \E p \in Objs : OpenSessionExists(p)
  \/ \E p \in Objs : OpenUpdate(p)

SpecOpenConc == InitConc /\ [][NextOpenConc]_vars

\* ------------------------------------------------------- the sweep task
\* The constructor of the handler starts a task that runs CleanSessions(true):
\* sleep clean_sessions_frequency_ seconds, CleanSessions(), and again.
\* thr[Sweeper] is that task: it sleeps until the clock reads wake.  The clock
\* does not pass wake before the sweep has run, and MaxTime, where the clock
\* stops, stands for every later time: there every sleep comes to its end.
Sweeper == "sweeper"
Frequencies == {1, 2}                 \* values of clean_sessions_frequency_

Sleeping(frequency, clock) ==
  [pc |-> "sleep", op |-> "CleanSessions", frequency |-> frequency, wake |-> clock + frequency]

InitSweep ==
  /\ now = 0
  /\ props \in [session_timeout : {0, 1}, session_token_support : {session_cookie}]
  /\ obj = [o \in Objs |-> At(NewSession("SimpleSession", props), o)]
  /\ sessions = [v \in Variants |-> EmptyMap]
  /\ hist = [v \in Variants |-> [t \in AllTokens |-> NotOpen]]
  /\ last = Result("Init", "-", NoToken, TRUE)
  /\ mtx = Free
  /\ acq = [t \in AllTokens |-> {}]
  /\ \E f \in Frequencies :
       thr = [p \in Objs \cup {Sweeper} |-> IF p = Sweeper THEN Sleeping(f, 0) ELSE Idle]

\* a second passes while the task sleeps
TickSweep ==
  /\ now < thr[Sweeper].wake
  /\ Tick

\* sleep_seconds() returns; CleanSessions(); CleanSessions(true) sleeps again
CleanSessionsTask ==
  /\ thr[Sweeper].pc = "sleep"
  /\ now >= thr[Sweeper].wake \/ now = MaxTime
  /\ \E v \in {"SimpleSession"} : \E m \in {CleanSessions(sessions[v], now)} :
      \E gone \in {{t \in AllTokens : m[t] # sessions[v][t]}} :
        /\ sessions' = [sessions EXCEPT ![v] = m]
        /\ hist' = [hist EXCEPT ![v] = HistClosed(@, gone)]
        /\ last' = Result("CleanSessions", Sweeper, NoToken, gone # {})
  /\ thr' = [thr EXCEPT ![Sweeper] = Sleeping(@.frequency, now)]
  /\ UNCHANGED <<mtx, acq, now, props, obj>>

NextSweep ==
  \/ TickSweep
  \/ \E o \in Objs : OpenAct(o)
  \/ \E o \in Objs : UpdateAct(o)
  \/ \E o \in Objs, t \in Tokens : LoadSessionAct(o, t)
  \/ CleanSessionsTask

\* the clock runs and the task is scheduled
SpecSweep ==
  InitSweep /\ [][NextSweep]_vars /\ WF_vars(TickSweep) /\ WF_vars(CleanSessionsTask)

\* ---------------------------------------------- the query string, spelled out
\* The query flow of Session::LoadSession(request) on the characters of the
\* query string.  A string is the sequence of its characters; CharsOf spells the
\* strings that are tokens, labels or values, and Text reads a spelling back ("?"
\* is a string that is none of them).
CharsOf ==
  [t1 |-> <<"t", "1">>, t2 |-> <<"t", "2">>, a |-> <<"a">>, b |-> <<"b">>, c |-> <<"c">>]
    @@ ("1" :> <<"1">>) @@ ("2" :> <<"2">>) @@ ("" :> <<>>)

Text(chars) ==
  IF \E str \in DOMAIN CharsOf : CharsOf[str] = chars
    THEN CHOOSE str \in DOMAIN CharsOf : CharsOf[str] = chars
    ELSE "?"

\* granada::util::string::split: the pieces of str between the delimiters
RECURSIVE split(_, _)
split(str, delimiter) ==
  IF str = <<>> THEN <<>>
  ELSE LET at == {i \in 1..Len(str) : str[i] = delimiter}
       IN IF at = {}
            THEN <<str>>
            ELSE LET i == CHOOSE k \in at : \A j \in at : k <= j
                 IN <<SubSeq(str, 1, i - 1)>> \o split(SubSeq(str, i + 1, Len(str)), delimiter)

\* web::uri::decode: every %XX is replaced by the character with that code
RECURSIVE decode(_)
decode(str) ==
  IF str = <<>> THEN <<>>
  ELSE IF str[1] = "%" /\ Len(str) >= 3
         THEN LET code == SubSeq(str, 2, 3)
                  char == IF code = <<"3", "1">> THEN "1"
                          ELSE IF code = <<"3", "2">> THEN "2"
                          ELSE IF code = <<"7", "4">> THEN "t"
                          ELSE "?"
              IN <<char>> \o decode(SubSeq(str, 4, Len(str)))
         ELSE <<str[1]>> \o decode(Tail(str))

\* mutant: the loop takes the last parameter that has a value, whatever its key
QueryParameterAny(keys_and_values, len, token_label) ==
  IF \E i \in 1..len : Len(split(keys_and_values[i], "=")) > 1
    THEN CHOOSE i \in 1..len :
           /\ Len(split(keys_and_values[i], "=")) > 1
           /\ \A j \in (i + 1)..len : Len(split(keys_and_values[j], "=")) <= 1
    ELSE 0

\* the while (len--) loop: the index of the last parameter with more than one
\* part and token_label as its key, or 0
RECURSIVE QueryParameter(_, _, _)
QueryParameter(keys_and_values, len, token_label) ==
  IF len = 0 THEN 0
  ELSE LET key_and_value == split(keys_and_values[len], "=")
       IN IF Len(key_and_value) > 1 /\ key_and_value[1] = token_label
            THEN len
            ELSE QueryParameter(keys_and_values, len - 1, token_label)

\* Session::LoadSession(token) with a token that may be no key of the map at all
LoadSessionText(m, s, token, clock) ==
  LET m2 == [t \in AllTokens \cup {token} |-> IF t \in AllTokens THEN m[t] ELSE NoSession]
      r == LoadSession(m2, s, token, clock)
  IN [r EXCEPT !.m = [t \in AllTokens |-> r.m[t]]]

\* Session::LoadSession(request), query support: found tells whether a token was
\* taken from the query, tok is that token, ret the value returned
LoadSessionQuery(m, s, query, token_label, clock) ==
  LET keys_and_values == split(query, "&")
      i == QueryParameter(keys_and_values, Len(keys_and_values), CharsOf[token_label])
  IN IF i > 0
       THEN LET token == Text(split(keys_and_values[i], "=")[2])
                r == LoadSessionText(m, s, token, clock)
            IN [m |-> r.m, s |-> r.s, found |-> TRUE, tok |-> token, ret |-> r.ok]
       ELSE [m |-> m, s |-> s, found |-> FALSE, tok |-> NoToken, ret |-> FALSE]

\* "a=1&b=2"
QueryA1B2 == <<"a", "=", "1", "&", "b", "=", "2">>

\* "", "b=t1", "c=t2&b=t1", "b", "b=t1&b=t2&a", "b=t%31", "c=%742"
QueryStrings ==
  { <<>>,
    QueryA1B2,
    <<"b", "=", "t", "1">>,
    <<"c", "=", "t", "2", "&", "b", "=", "t", "1">>,
    <<"b">>,
    <<"b", "=", "t", "1", "&", "b", "=", "t", "2", "&", "a">>,
    <<"b", "=", "t", "%", "3", "1">>,
    <<"c", "=", "%", "7", "4", "2">> }

\* the token travels in the query under the label b or c
InitQuery ==
  /\ now = 0
  /\ props \in [session_timeout : {0}, session_token_support : {session_query},
                 session_token_label : {"b", "c"}]
  /\ obj = [o \in Objs |-> At(NewSession("SimpleSession", props), o)]
  /\ sessions = [v \in Variants |-> EmptyMap]
  /\ hist = [v \in Variants |-> [t \in AllTokens |-> NotOpen]]
  /\ last = Result("Init", "-", NoToken, TRUE)
  /\ Quiet

\* Session::LoadSession(request) on a caller's object, the request with that query
LoadSessionQueryAct(o, query) ==
  \E v \in {VariantOf(o)} :
    \E r \in {LoadSessionQuery(sessions[v], obj[o], query, props.session_token_label, now)} :
       /\ obj' = [obj EXCEPT ![o] = r.s]
       /\ sessions' = [sessions EXCEPT ![v] = r.m]
       /\ hist' = [hist EXCEPT ![v] =
                     IF r.m # sessions[v] THEN HistUpdated(@, r.s.token, now) ELSE @]
       /\ last' = [op |-> "LoadSessionQuery", o |-> o, tok |-> r.tok, ok |-> r.ret,
                   found |-> r.found, query |-> query]
       /\ UNCHANGED <<mtx, thr, acq, now, props>>

NextQuery ==
  \/ FirstTick
  \/ \E o \in Objs : OpenAct(o)
  \/ \E o \in Objs, query \in QueryStrings : LoadSessionQueryAct(o, query)

SpecQuery == InitQuery /\ [][NextQuery]_vars

\* ------------------------------------------------ the task is started, or not
\* session_clean_frequency is parsed by std::stod and may have a fraction; the
\* model counts it in half seconds.
CleanFrequencies == {-4, -3, -2, -1, 0, 1, 2, 3}

\* clean_sessions_frequency_ > -1, the frequency in half seconds
SweepStarted(half_seconds) == half_seconds > -2

\* no task was created
NoTask == [pc |-> "none", op |-> "-"]

\* the seconds of the clock a sleep of that many half seconds takes at most
SleepSeconds(half_seconds) == (half_seconds + 1) \div 2

\* SharedMapSessionHandler(): LoadProperties(), and the task is created or not
InitEnable ==
  /\ now = 0
  /\ props \in [session_timeout : {0}, session_token_support : {session_cookie},
                 session_clean_frequency : CleanFrequencies]
  /\ obj = [o \in Objs |-> At(NewSession("SimpleSession", props), o)]
  /\ sessions = [v \in Variants |-> EmptyMap]
  /\ hist = [v \in Variants |-> [t \in AllTokens |-> NotOpen]]
  /\ last = Result("Init", "-", NoToken, TRUE)
  /\ mtx = Free
  /\ acq = [t \in AllTokens |-> {}]
  /\ thr = [p \in Objs \cup {Sweeper} |->
              IF p # Sweeper
                THEN Idle
                ELSE IF SweepStarted(props.session_clean_frequency)
                       THEN Sleeping(SleepSeconds(props.session_clean_frequency), 0)
                       ELSE NoTask]

NextEnable ==
  \/ Tick
  \/ \E o \in Objs : OpenAct(o)
  \/ \E o \in Objs : UpdateAct(o)
  \/ \E o \in Objs : CloseAct(o)
  \/ \E o \in Objs : CleanSessionsAct(o)
  \/ CleanSessionsTask

SpecEnable == InitEnable /\ [][NextEnable]_vars

\* ------------------------------------------- the sweep among request threads
\* CleanSessions() step by step, while request threads call SaveSession and
\* DeleteSession.  thr[Sweeper].to_erase is sessions_to_erase: each element stands
\* for a Session* and is the snapshot the pointer addressed at the scan.
SweepIdle == [pc |-> "idle", op |-> "CleanSessions", to_erase |-> <<>>]

\* the orders in which the loop over the unordered map can meet the sessions of S
Orders(S) ==
  {q \in UNION {[1..n -> S] : n \in {Cardinality(S)}} :
     \A i, j \in 1..Cardinality(S) : i # j => q[i] # q[j]}

\* mutant: the scan ends without mtx.unlock()
ScanNoUnlock(holder) == holder

\* mtx.unlock() after the scan
ScanUnlock(holder) == Free

InitSweepConc ==
  /\ now = 0
  /\ props \in [session_timeout : {0}, session_token_support : {session_cookie}]
  /\ obj = [o \in Objs |-> At(NewSession("SimpleSession", props), o)]
  /\ sessions = [v \in Variants |-> EmptyMap]
  /\ hist = [v \in Variants |-> [t \in AllTokens |-> NotOpen]]
  /\ last = Result("Init", "-", NoToken, TRUE)
  /\ mtx = Free
  /\ acq = [t \in AllTokens |-> {}]
  /\ thr = [p \in Objs \cup {Sweeper} |-> IF p = Sweeper THEN SweepIdle ELSE Idle]

\* CleanSessions(): mtx.lock()
SweepLock ==
  /\ thr[Sweeper].pc = "idle"
  /\ mtx = Free
  /\ mtx' = Sweeper
  /\ thr' = [thr EXCEPT ![Sweeper].pc = "scan"]
  /\ UNCHANGED <<now, props, obj, sessions, hist, acq, last>>

\* the loop that collects the garbage sessions, and mtx.unlock()
SweepScan ==
  /\ thr[Sweeper].pc = "scan"
  /\ \E q \in Orders({sessions["SimpleSession"][t] :
                         t \in {k \in AllTokens : /\ sessions["SimpleSession"][k] # NoSession
                                                  /\ IsGarbage(sessions["SimpleSession"][k], now)}}) :
       thr' = [thr EXCEPT ![Sweeper].pc = "Close", ![Sweeper].to_erase = q]
  /\ mtx' = ScanUnlock(mtx)
  /\ last' = Result("scan", Sweeper, NoToken, TRUE)
  /\ UNCHANGED <<now, props, obj, sessions, hist, acq>>

\* (*it)->Close() up to the mtx.lock() of its DeleteSession(this): the callbacks
\* and RemoveAll() run.  The pointer dangles when the map no longer owns the
\* snapshot it addressed; the token read through it is then any string.
SweepClose ==
  /\ thr[Sweeper].pc = "Close"
  /\ thr[Sweeper].to_erase # <<>>
  /\ \E s \in {Head(thr[Sweeper].to_erase)} :
      \E token \in IF sessions["SimpleSession"][s.token] = s THEN {s.token} ELSE AllTokens :
        /\ thr' = IF token # NoToken
                    THEN [thr EXCEPT ![Sweeper] = [@ EXCEPT !.pc = "lock"] @@ [token |-> token]]
                    ELSE [thr EXCEPT ![Sweeper].to_erase = Tail(@)]
        /\ last' = [op |-> "Close", o |-> Sweeper, tok |-> token, ok |-> TRUE,
                    closed |-> <<token>>, erased |-> FALSE]
  /\ UNCHANGED <<now, props, obj, sessions, mtx, hist, acq>>

\* DeleteSession(this), called by Close(): mtx.lock()
SweepDeleteLock ==
  /\ thr[Sweeper].pc = "lock"
  /\ mtx = Free
  /\ mtx' = Sweeper
  /\ thr' = [thr EXCEPT ![Sweeper].pc = "locked"]
  /\ UNCHANGED <<now, props, obj, sessions, hist, acq, last>>

\* sessions_->erase(token), mtx.unlock(), and the loop goes to its next session
SweepDeleteErase ==
  /\ thr[Sweeper].pc = "locked"
  /\ sessions' = [sessions EXCEPT !["SimpleSession"][thr[Sweeper].token] = NoSession]
  /\ mtx' = Free
  /\ thr' = [thr EXCEPT ![Sweeper] =
               [pc |-> "Close", op |-> "CleanSessions", to_erase |-> Tail(thr[Sweeper].to_erase)]]
  /\ last' = Result("DeleteSession", Sweeper, thr[Sweeper].token, TRUE)
  /\ UNCHANGED <<now, props, obj, hist, acq>>

\* the loop over sessions_to_erase is at its end
SweepReturn ==
  /\ thr[Sweeper].pc = "Close"
  /\ thr[Sweeper].to_erase = <<>>
  /\ thr' = [thr EXCEPT ![Sweeper] = SweepIdle]
  /\ last' = Result("CleanSessions", Sweeper, NoToken, TRUE)
  /\ UNCHANGED <<now, props, obj, sessions, mtx, hist, acq>>

NextSweepConc ==
  \/ FirstTick
  \/ \E p \in Objs, t \in Tokens, u \in 0..now : CallSaveSession(p, t, u)
  \/ \E p \in Objs, t \in Tokens : CallDeleteSession(p, t)
  \/ \E p \in Objs : Lock(p)
  \/ \E p \in Objs : SaveSessionCS(p)
  \/ \E p \in Objs : DeleteSessionCS(p)
  \/ SweepLock
  \/ SweepScan
  \/ SweepClose
  \/ SweepDeleteLock
  \/ SweepDeleteErase
  \/ SweepReturn

SpecSweepConc == InitSweepConc /\ [][NextSweepConc]_vars

\* ------------------------------------------- every operation on the map
\* The request threads call all four operations of the handler while the sweep
\* runs.
CallLoadSession(p, token) ==
  Call(p, "LoadSession", [obj[p] EXCEPT !.token = token])

\* SharedMapSessionHandler::LoadSession under the lock, and mtx.unlock()
LoadSessionCS(p) ==
  /\ Locked(p, "LoadSession")
  /\ obj' = [obj EXCEPT ![p] = HandlerLoadSessionLocked(sessions[VariantOf(p)],
                                                       thr[p].session.token, obj[p], now)]
  /\ last' = Result("HandlerLoadSession", p, thr[p].session.token, obj'[p] # obj[p])
  /\ UNCHANGED sessions

\* a thread leaves its critical section
Unlocks(p) ==
  \/ SaveSessionCS(p)
  \/ DeleteSessionCS(p)
  \/ SessionExistsCS(p)
  \/ LoadSessionCS(p)
  \/ (p = Sweeper /\ (SweepScan \/ SweepDeleteErase))

NextMutex ==
  \/ FirstTick
  \/ \E p \in Objs, t \in Tokens : CallSaveSession(p, t, 0)
  \/ \E p \in Objs, t \in Tokens : CallDeleteSession(p, t)
  \/ \E p \in Objs, t \in Tokens : CallSessionExists(p, t)
  \/ \E p \in Objs, t \in Tokens : CallLoadSession(p, t)
  \/ \E p \in Objs : Lock(p)
  \/ \E p \in Objs \cup {Sweeper} : Unlocks(p)
  \/ SweepLock
  \/ SweepClose
  \/ SweepDeleteLock
  \/ SweepReturn

SpecMutex == InitSweepConc /\ [][NextMutex]_vars

\* ------------------------------------------------------------------ claims
\* Every action writes last: last'.op and last'.o name the operation a step ran
\* and the object it ran on.

\* C1: a token t minted by Open() stays loadable: every LoadSession(t) on a fresh
\* session object succeeds while no Close() was run for t and at most
\* session_timeout seconds passed since the last Update() of t, whatever other
\* sessions did on other tokens in between (their Open() calls included).
C1_LoadSucceedsWhileOpen ==
  [][\A o \in Objs, t \in Tokens :
       ( /\ last'.op = "LoadSession"
         /\ LoadSessionAct(o, t)
         /\ obj[o].token = NoToken
         /\ \E u \in hist[VariantOf(o)][t] : now - u <= props.session_timeout )
       => last'.ok]_vars

\* the stored snapshot of token t on handler v is there and timed out
StoredInvalid(v, t) ==
  /\ t # NoToken
  /\ sessions[v][t] # NoSession
  /\ ~IsValid(sessions[v][t], now)

\* C2: LoadSession(token) for a token whose stored snapshot is timed out returns
\* failure, copies nothing into the caller's object and leaves the stored entry
\* in the map.
C2_InvalidSnapshotNotLoaded ==
  [][\A o \in Objs, t \in Tokens :
       (last'.op = "LoadSession" /\ LoadSessionAct(o, t) /\ StoredInvalid(VariantOf(o), t))
       => /\ ~last'.ok
          /\ obj'[o] = obj[o]
          /\ sessions'[VariantOf(o)][t] = sessions[VariantOf(o)][t]]_vars

\* C3: LoadSession(token) returns success exactly when the handler holds a valid
\* snapshot under token; in every other case it returns failure and changes
\* neither the instance nor the store, whatever the instance held before.
C3_LoadSucceedsIffValidSnapshot ==
  [][\A o \in Objs, t \in AllTokens :
       (last'.op = "LoadSession" /\ LoadSessionAct(o, t))
       => /\ last'.ok <=> ( /\ t # NoToken
                            /\ sessions[VariantOf(o)][t] # NoSession
                            /\ IsValid(sessions[VariantOf(o)][t], now) )
          /\ ~last'.ok => (obj' = obj /\ sessions' = sessions)]_vars

\* C4: one CleanSessions() sweep with no store operation in between removes
\* exactly the entries whose snapshot IsGarbage() at the scan; every other entry
\* is still there afterwards with the same snapshot.
C4_SweepRemovesExactlyGarbage ==
  [][\A o \in Objs :
       (last'.op = "CleanSessions" /\ CleanSessionsAct(o))
       => \A v \in Variants, t \in AllTokens :
            sessions'[v][t] =
              IF /\ v = VariantOf(o)
                 /\ sessions[v][t] # NoSession
                 /\ IsGarbage(sessions[v][t], now)
                THEN NoSession
                ELSE sessions[v][t]]_vars

\* a sweep has just closed a session and left a valid one in the map
C4_Witness ==
  /\ last.op = "CleanSessions"
  /\ last.ok
  /\ \E t \in Tokens :
       /\ sessions[VariantOf(last.o)][t] # NoSession
       /\ ~IsGarbage(sessions[VariantOf(last.o)][t], now)

\* |x|
Abs(x) == IF x < 0 THEN -x ELSE x

\* C5: round trip: Open() on one session followed at once by LoadSession(t), t the
\* token it minted, on another session object of the same variant succeeds and
\* gives a session with token t and an update_time less than a second from the
\* original's.
C5_OpenThenLoadRoundTrip ==
  [][\A o \in Objs, t \in Tokens :
       ( /\ last.op = "Open"
         /\ last'.op = "LoadSession"
         /\ LoadSessionAct(o, t)
         /\ last.o # o
         /\ last.tok = t
         /\ VariantOf(last.o) = VariantOf(o) )
       => /\ last'.ok
          /\ obj'[o].token = t
          /\ Abs(obj'[o].update_time - obj[last.o].update_time) < 1]_vars

\* a LoadSession has just succeeded and another object holds the same token
\* with the same update_time
C5_Witness ==
  /\ last.op = "LoadSession"
  /\ last.ok
  /\ \E o \in Objs \ {last.o} :
       /\ obj[o].token = last.tok
       /\ obj[o].token = obj[last.o].token
       /\ obj[o].update_time = obj[last.o].update_time
       /\ obj[o].update_time = now

\* the operation just run ended in Update() on last.o
RanUpdate ==
  \/ last.op = "Update"
  \/ last.op = "Open"
  \/ last.op = "LoadSession" /\ last.ok

\* C6: Update() sets update_time to the current time, and IsValid() right after
\* it is true for every session_timeout > 0 and every session_timeout < 0.
C6_UpdateRefreshesAndIsValid ==
  RanUpdate =>
    /\ obj[last.o].update_time = now
    /\ obj[last.o].session_timeout # 0 => IsValid(obj[last.o], now)

\* Update() has just run, later than at time 0, on a session that can time out
C6_Witness ==
  /\ last.op = "Update"
  /\ now > 0
  /\ obj[last.o].session_timeout > 0
  /\ obj[last.o].token # NoToken

\* s is timed out at no clock value the model reaches or could reach
NeverTimesOut(s) ==
  \A clock \in 0..(MaxTime + MaxTime) :
    /\ ~IsTimedOut(s, clock)
    /\ ~IsTimedOutExtra(s, 0, clock)
    /\ IsValid(s, clock)
    /\ ~IsGarbage(s, clock)

\* C7: a session with session_timeout < 0 never times out, whatever time passed
\* since update_time: IsTimedOut() is false, IsValid() true, IsGarbage() false,
\* and no sweep removes its store entry.
C7_NegativeTimeoutNeverExpires ==
  /\ [](\A o \in Objs : obj[o].session_timeout < 0 => NeverTimesOut(obj[o]))
  /\ [](\A v \in Variants, t \in Tokens :
          (sessions[v][t] # NoSession /\ sessions[v][t].session_timeout < 0)
          => NeverTimesOut(sessions[v][t]))
  /\ [][\A o \in Objs :
          (last'.op = "CleanSessions" /\ CleanSessionsAct(o))
          => \A t \in Tokens :
               ( /\ sessions[VariantOf(o)][t] # NoSession
                 /\ sessions[VariantOf(o)][t].session_timeout < 0 )
               => sessions'[VariantOf(o)][t] = sessions[VariantOf(o)][t]]_vars

\* a sweep has just run over a never-expiring session last updated MaxTime ago
C7_Witness ==
  /\ last.op = "CleanSessions"
  /\ \E t \in Tokens :
       /\ sessions[VariantOf(last.o)][t] # NoSession
       /\ sessions[VariantOf(last.o)][t].session_timeout < 0
       /\ now - sessions[VariantOf(last.o)][t].update_time = MaxTime

\* C8: for session_timeout >= 0, IsTimedOut(extra) is true exactly when
\* (now - update_time) > session_timeout + extra, the comparison strict: with
\* session_timeout = 5 and extra = 0 a session updated 6 s ago is timed out, one
\* updated 4 s ago is not, one updated exactly 5 s ago is not.
C8_TimedOutStrictlyAfterTimeout ==
  (last.op = "IsTimedOut" /\ obj[last.o].session_timeout >= 0) =>
    LET elapsed == now - obj[last.o].update_time
        timeout == obj[last.o].session_timeout
    IN /\ last.ok <=> (elapsed > timeout + last.extra)
       /\ (timeout = 5 /\ last.extra = 0 /\ elapsed = 6) => last.ok
       /\ (timeout = 5 /\ last.extra = 0 /\ elapsed = 4) => ~last.ok
       /\ (timeout = 5 /\ last.extra = 0 /\ elapsed = 5) => ~last.ok

\* IsTimedOut() answered true for timeout 5 and a session updated 6 s ago
C8_Witness ==
  /\ last.op = "IsTimedOut"
  /\ last.ok
  /\ last.extra = 0
  /\ obj[last.o].session_timeout = 5
  /\ now - obj[last.o].update_time = 6

\* a thread holds mtx inside SaveSession for token t and has not yet written
SavingUnderLock(t) ==
  \E p \in Objs :
    /\ thr[p].pc = "locked"
    /\ thr[p].op = "SaveSession"
    /\ thr[p].session.token = t

\* C9: SaveSession is an upsert, the last writer wins: after any interleaving of
\* SaveSession calls for a token the map holds one entry for it, the snapshot of
\* the call that locked mtx last; the entries of other tokens are unchanged.
C9_SaveSessionLastWriterWins ==
  /\ [](\A p \in Objs, t \in Tokens :
          \A s \in acq[t] : ~SavingUnderLock(t) => sessions[VariantOf(p)][t] = s)
  /\ [][\A p \in Objs :
          (last'.op = "SaveSession" /\ SaveSessionCS(p))
          => /\ sessions'[VariantOf(p)][thr[p].session.token] = thr[p].session
             /\ \A v \in Variants, t \in AllTokens :
                  (v # VariantOf(p) \/ t # thr[p].session.token)
                  => sessions'[v][t] = sessions[v][t]]_vars

\* a SaveSession has just replaced the snapshot of a token while another thread
\* waits for mtx to save a different snapshot of the same token
C9_Witness ==
  /\ last.op = "SaveSession"
  /\ \E p \in Objs, t \in Tokens :
       /\ thr[p].pc = "lock"
       /\ thr[p].op = "SaveSession"
       /\ thr[p].session.token = t
       /\ acq[t] # {}
       /\ thr[p].session \notin acq[t]
       /\ sessions[VariantOf(p)][t] \in acq[t]

\* the keys of every map are non-empty tokens, each the token of its snapshot
StoreKeysOK ==
  \A v \in Variants :
    /\ sessions[v][NoToken] = NoSession
    /\ \A t \in Tokens : sessions[v][t] # NoSession => sessions[v][t].token = t
    /\ \A t \in Tokens :
         Cardinality({k \in AllTokens : sessions[v][k] # NoSession /\ sessions[v][k].token = t}) <= 1

\* a handler operation is called with the empty token
EmptyTokenCall ==
  \E o \in Objs :
    \/ \E u \in 0..now : SaveSessionAct(o, NoToken, u)
    \/ DeleteSessionAct(o, NoToken)
    \/ SessionExistsAct(o, NoToken)
    \/ HandlerLoadSessionAct(o, NoToken)

\* C10: in every reachable state every key of the map is a non-empty token, the
\* snapshot under key t has token t and a token has at most one snapshot;
\* SaveSession, DeleteSession, SessionExists and LoadSession called with the empty
\* token leave the map unchanged.
C10_StoreKeysNonEmpty ==
  /\ []StoreKeysOK
  /\ [][(last'.tok = NoToken /\ EmptyTokenCall) => sessions' = sessions]_vars

\* SaveSession has just been called with the empty token on a non-empty map
C10_Witness ==
  /\ last.op = "SaveSession"
  /\ last.tok = NoToken
  /\ \E t \in Tokens : sessions[VariantOf(last.o)][t] # NoSession

\* C11: cookie flow: with token support cookie, LoadSession(request, response)
\* always returns success and on return the session holds a non-empty token
\* whose snapshot is in the store and valid, whether the request carried no
\* cookie, an unknown token, a timed-out token or a valid token.
C11_CookieFlowAlwaysHasSession ==
  [][\A o \in Objs :
       ( /\ last'.op = "LoadSessionRequestResponse"
         /\ last'.o = o
         /\ obj[o].session_token_support_ = session_cookie )
       => /\ last'.ok
          /\ obj'[o].token # NoToken
          /\ sessions'[VariantOf(o)][obj'[o].token] # NoSession
          /\ IsValid(sessions'[VariantOf(o)][obj'[o].token], now)]_vars

\* the cookie flow was given the token of a stored, timed-out snapshot and has
\* opened a session under another token
C11_Witness ==
  /\ last.op = "LoadSessionRequestResponse"
  /\ last.ok
  /\ obj[last.o].session_token_support_ = session_cookie
  /\ last.tok \in Tokens
  /\ last.tok # obj[last.o].token
  /\ sessions[VariantOf(last.o)][last.tok] # NoSession
  /\ ~IsValid(sessions[VariantOf(last.o)][last.tok], now)
  /\ last.set_cookie = {<<session_token_label, obj[last.o].token, "path=/">>}

\* C12: with the property session_token_support not configured,
\* LoadSession(request, response) falls back to cookie support and takes the
\* cookie branch (token read from the cookies, Open(response) on failure,
\* success returned), and LoadSession(request) falls back to query support.
C12_UnconfiguredSupportFallsBack ==
  [][\A o \in Objs :
       /\ ( /\ last'.op = "LoadSessionRequestResponse"
            /\ last'.o = o
            /\ obj[o].session_token_support_ = "" )
          => /\ obj'[o].session_token_support_ = session_cookie
             /\ last'.ok
             /\ obj'[o].token # NoToken
             /\ sessions'[VariantOf(o)][obj'[o].token] # NoSession
       /\ ( /\ last'.op = "LoadSessionRequest"
            /\ last'.o = o
            /\ obj[o].session_token_support_ = "" )
          => obj'[o].session_token_support_ = session_query]_vars

\* C13: Closed is terminal: after Close() on a session holding token t the store
\* has no entry for t, and no later lifecycle call on that session object, in
\* particular Update(), makes an entry for t present in the store again.  (Stated
\* for the call right after Close(), and for the calls that mint no token.)
C13_ClosedIsTerminal ==
  [][\A o \in Objs :
       /\ (last'.op = "Close" /\ last'.o = o /\ obj[o].token # NoToken)
          => sessions'[VariantOf(o)][obj[o].token] = NoSession
       /\ ( /\ last.op = "Close" /\ last.o = o /\ last.tok # NoToken
            /\ last'.op \in {"Update", "LoadSession", "Close"} /\ last'.o = o )
          => sessions'[VariantOf(o)][last.tok] = NoSession]_vars

\* C14: double Close: a Close() on a session whose store entry is already gone
\* leaves the store unchanged (the delete is a silent no-op) but runs the close
\* callbacks and clears the roles again: every call of Close() runs them once.
C14_CloseAgainRunsCallbacks ==
  [][\A o \in Objs :
       (last'.op = "Close" /\ last'.o = o)
       => /\ last'.closed = <<obj[o].token>>
          /\ sessions[VariantOf(o)][obj[o].token] = NoSession
             => (sessions' = sessions /\ ~last'.erased /\ obj' = obj)]_vars

\* Close() has just run on a session that holds a token and has no store entry
C14_Witness ==
  /\ last.op = "Close"
  /\ last.tok # NoToken
  /\ ~last.erased
  /\ last.closed = <<last.tok>>
  /\ hist[VariantOf(last.o)][last.tok] = NotOpen

\* C15: variant isolation: SimpleSession and StorageSession use two handler
\* instances: no operation on a session of one variant (Open, Update, Close,
\* LoadSession, sweep) reads or changes the store of the other; a token stored by
\* one variant is not loadable by the other and not reported as existing, even
\* for the same token string.
C15_VariantsAreIsolated ==
  [][\A o \in Objs :
       (last'.o = o)
       => /\ \A v \in Variants \ {obj[o].variant} : sessions'[v] = sessions[v]
          /\ (last'.op = "SessionExists")
             => (last'.ok <=> (/\ last'.tok # NoToken
                               /\ sessions[obj[o].variant][last'.tok] # NoSession))
          /\ (last'.op = "LoadSession" /\ obj[o].token = NoToken)
             => (last'.ok => (/\ last'.tok # NoToken
                              /\ sessions[obj[o].variant][last'.tok] # NoSession
                              /\ obj'[o].update_time = now
                              /\ obj'[o].token = last'.tok))]_vars

\* a new session object has just failed to load a token that the store of the
\* other variant holds, valid
C15_Witness ==
  /\ last.op = "LoadSession"
  /\ ~last.ok
  /\ last.tok # NoToken
  /\ obj[last.o].token = NoToken
  /\ sessions[obj[last.o].variant][last.tok] = NoSession
  /\ \E v \in Variants \ {obj[last.o].variant} :
       /\ sessions[v][last.tok] # NoSession
       /\ IsValid(sessions[v][last.tok], now)

\* C16: snapshot isolation: the session object a caller holds is a copy of the
\* stored snapshot, on its own: changing its token or update_time (set, SetToken,
\* SetUpdateTime) leaves the store's snapshots unchanged until the caller runs
\* Update(), and an Update() by one caller never changes what another caller's
\* object holds.
C16_SnapshotIsolation ==
  /\ [](\A v \in Variants, t \in Tokens :
          sessions[v][t] # NoSession => sessions[v][t].this \notin Objs)
  /\ [][\A o \in Objs :
          /\ (last'.o = o /\ last'.op \in {"set", "SetToken", "SetUpdateTime"})
             => /\ sessions' = sessions
                /\ \A o2 \in Objs \ {o} : obj'[o2] = obj[o2]
          /\ (last'.o = o /\ last'.op = "Update")
             => /\ \A o2 \in Objs \ {o} : obj'[o2] = obj[o2]
                /\ \A v \in Variants, t \in AllTokens :
                     (v # obj[o].variant \/ t # obj[o].token)
                     => sessions'[v][t] = sessions[v][t]]_vars

\* a caller has just set the update_time of its object, which holds the token of
\* a stored snapshot, to another time than the snapshot's; another caller's
\* object holds the same token
C16_Witness ==
  /\ last.op = "SetUpdateTime"
  /\ last.tok # NoToken
  /\ sessions[obj[last.o].variant][last.tok] # NoSession
  /\ sessions[obj[last.o].variant][last.tok].update_time # obj[last.o].update_time
  /\ \E o2 \in Objs \ {last.o} : obj[o2].token = last.tok

\* C17: token uniqueness under concurrency: in any interleaving of Open() calls
\* by distinct request threads on one handler, no two session objects complete
\* Open() holding the same token.
C17_OpenedTokensAreUnique ==
  \A p, q \in Objs :
    ( /\ p # q
      /\ thr[p].pc = "idle" /\ thr[q].pc = "idle"
      /\ obj[p].token # NoToken
      /\ VariantOf(p) = VariantOf(q) )
    => obj[p].token # obj[q].token

\* the first clock value at which the snapshot s, garbage at clock, was timed out
TimedOutSince(s, clock) ==
  CHOOSE c \in s.update_time..clock :
    /\ IsTimedOut(s, c)
    /\ \A d \in s.update_time..(c - 1) : ~IsTimedOut(s, d)

ExistedAtCheck(m, prev, gen, i) ==
  /\ m[gen[i]] # NoSession
  /\ gen[i] \notin {prev} \cup {gen[j] : j \in 1..(i - 1)}

\* what an Open() on o leaves, the previous token apart: every draw but the last
\* was of a token that existed at its check, the last of one that did not; the
\* object holds that last token, not empty, stored with update_time = now
OpenPostcondition(o) ==
  LET v == VariantOf(o)
      t == obj'[o].token
  IN /\ t # NoToken
     /\ sessions'[v][t] # NoSession
     /\ sessions'[v][t].token = t
     /\ sessions'[v][t].update_time = now
     /\ obj'[o].update_time = now
     /\ \A gen \in Generated :
          \A r \in {Open(sessions[v], obj[o], gen, now)} :
            (r.ok /\ r.s = obj'[o] /\ r.m = sessions'[v])
            => /\ gen[Len(gen)] = t
               /\ \A i \in 1..Len(gen) :
                    ExistedAtCheck(sessions[v], obj[o].token, gen, i) <=> i < Len(gen)

\* C19 as stated: Open() repeats the token generation while the generated token
\* exists in the store; when it returns the session holds a non-empty token that
\* was absent at its existence check and is stored with update_time = now, and
\* any previous token of the object has no entry in the store.
C19_OpenPostconditionAsStated ==
  [][\A o \in Objs :
       (last'.op = "Open" /\ last'.o = o)
       => /\ OpenPostcondition(o)
          /\ obj[o].token # NoToken => sessions'[VariantOf(o)][obj[o].token] = NoSession]_vars

\* C19: Open() repeats the token generation while the generated token exists in
\* the store; when it returns the session holds a non-empty token that was
\* absent at its existence check and is stored with update_time = now, and any
\* previous token of the object other than the one it now holds has no entry in
\* the store.
C19_OpenPostcondition ==
  [][\A o \in Objs :
       (last'.op = "Open" /\ last'.o = o)
       => /\ OpenPostcondition(o)
          /\ (obj[o].token # NoToken /\ obj[o].token # obj'[o].token)
             => sessions'[VariantOf(o)][obj[o].token] = NoSession]_vars

\* an Open() on a session that held a token has drawn a taken token, drawn again
\* and returned with a token that is not the one held before
C19_Witness ==
  /\ last.op = "Open"
  /\ Len(last.closed) = 2
  /\ last.closed[1] # NoToken
  /\ last.closed[1] # last.tok
  /\ sessions[VariantOf(last.o)][last.tok] # NoSession

\* C20: the sweep does not hold mtx while Close() runs on a collected session:
\* it holds mtx in the scan and inside the DeleteSession of a Close() only, so
\* every Close() starts with mtx released by the sweep, and when the sweep waits
\* for mtx, mtx is held by a request thread inside its own critical section,
\* never by the sweep itself.
C20_SweepClosesOutsideLock ==
  /\ [](/\ mtx = Sweeper => thr[Sweeper].pc \in {"scan", "locked"}
        /\ thr[Sweeper].pc \in {"Close", "lock"} => mtx # Sweeper
        /\ (thr[Sweeper].pc = "lock" /\ mtx # Free)
           => (mtx \in Objs /\ thr[mtx].pc = "locked"))
  /\ [][(thr[Sweeper].pc = "Close" /\ thr'[Sweeper].pc = "lock")
        => (mtx # Sweeper /\ mtx' # Sweeper)]_vars

\* the sweep, a session collected and closed, waits for mtx in DeleteSession
\* while a request thread holds it
C20_Witness ==
  /\ thr[Sweeper].pc = "lock"
  /\ thr[Sweeper].to_erase # <<>>
  /\ mtx \in Objs

\* the threads that are inside a critical section of the map
InCriticalSection == {p \in Objs \cup {Sweeper} : thr[p].pc \in {"locked", "scan"}}

\* C21: mutual exclusion and lock release: the map is read and written by the
\* thread that holds mtx only, at most one thread is inside a critical section,
\* every operation has released mtx when it returns, the sweep holds no lock
\* while it sleeps, and no state is a deadlock: the holder of mtx can always
\* leave its critical section and a thread that waits for a free mtx can take it.
C21_MutualExclusion ==
  /\ [](/\ Cardinality(InCriticalSection) <= 1
        /\ \A p \in Objs \cup {Sweeper} : p \in InCriticalSection <=> mtx = p
        /\ \A p \in Objs \cup {Sweeper} : thr[p].pc = "idle" => mtx # p
        /\ \A p \in Objs \cup {Sweeper} : mtx = p => ENABLED Unlocks(p)
        /\ mtx = Free
           => /\ \A p \in Objs : thr[p].pc = "lock" => ENABLED Lock(p)
              /\ thr[Sweeper].pc = "lock" => ENABLED SweepDeleteLock
        /\ ENABLED NextMutex)
  /\ [][/\ (sessions' # sessions \/ InCriticalSection' # InCriticalSection)
           => \/ mtx = Free /\ InCriticalSection = {} /\ InCriticalSection' = {mtx'}
                 /\ sessions' = sessions
              \/ mtx # Free /\ InCriticalSection = {mtx} /\ InCriticalSection' = {}
                 /\ mtx' = Free
        /\ \A p \in Objs \cup {Sweeper} :
             (thr[p].pc # "idle" /\ thr'[p].pc = "idle") => mtx' # p]_vars

\* a request thread is inside LoadSession under the lock while the sweep, its
\* scan done, waits for mtx and the other request thread waits to save
C21_Witness ==
  /\ mtx \in Objs
  /\ thr[mtx].pc = "locked"
  /\ thr[mtx].op = "LoadSession"
  /\ thr[Sweeper].pc = "lock"
  /\ \E q \in Objs \ {mtx} : thr[q].pc = "lock" /\ thr[q].op = "SaveSession"

\* C22: refresh on read: a LoadSession(token) that returns true has adopted the
\* token of the snapshot and stored a new snapshot under that token with
\* update_time = now; a stored session whose last refresh is no longer ago than
\* session_timeout is valid, is not garbage, and a sweep leaves its entry.
C22_RefreshOnRead ==
  /\ [][\A o \in Objs :
          (last'.op = "LoadSession" /\ last'.o = o /\ last'.ok)
          => /\ obj'[o].token = last'.tok
             /\ obj'[o].update_time = now
             /\ sessions'[VariantOf(o)][last'.tok] # NoSession
             /\ sessions'[VariantOf(o)][last'.tok].token = last'.tok
             /\ sessions'[VariantOf(o)][last'.tok].update_time = now]_vars
  /\ [][\A v \in Variants, t \in Tokens :
          ( /\ sessions[v][t] # NoSession
            /\ sessions[v][t].session_timeout >= 0
            /\ now - sessions[v][t].update_time <= sessions[v][t].session_timeout )
          => /\ IsValid(sessions[v][t], now)
             /\ ~IsGarbage(sessions[v][t], now)
             /\ last'.op = "CleanSessions" => sessions'[v][t] = sessions[v][t]]_vars

\* C23: sweep enablement: the constructor of the handler has started the sweep
\* task when the configured interval is >= 0 and has started none when it is
\* < 0; with no task, an entry leaves the map in a Close(), also the one Open()
\* starts with, or in a CleanSessions() a caller runs, and in no other step.
C23_SweepEnablement ==
  /\ [](thr[Sweeper].pc # "none" <=> props.session_clean_frequency >= 0)
  /\ [][( /\ props.session_clean_frequency < 0
          /\ \E v \in Variants, t \in Tokens :
               sessions[v][t] # NoSession /\ sessions'[v][t] = NoSession )
        => (last'.o \in Objs /\ last'.op \in {"Close", "Open", "CleanSessions"})]_vars

C25_OpenResponseSetsCookie ==
  [][\A o \in Objs :
       (last'.op = "OpenResponse" /\ last'.o = o)
       => /\ \E gen \in Generated :
               \E r \in {Open(sessions[VariantOf(o)], obj[o], gen, now)} :
                 r.ok /\ r.s = obj'[o] /\ r.m = sessions'[VariantOf(o)]
          /\ obj[o].session_token_support_ = session_cookie
             => /\ last'.set_cookie = {<<session_token_label, obj'[o].token, "path=/">>}
                /\ obj'[o].token \in Tokens
                /\ sessions'[VariantOf(o)][obj'[o].token] # NoSession
          /\ obj[o].session_token_support_ # session_cookie
             => last'.set_cookie = {}]_vars

\* Open(response) with cookie support has minted a token while the other session
\* is open, and set the cookie to the token minted
C25_Witness ==
  /\ last.op = "OpenResponse"
  /\ obj[last.o].session_token_support_ = session_cookie
  /\ last.set_cookie = {<<session_token_label, obj[last.o].token, "path=/">>}
  /\ \E t \in Tokens \ {last.tok} : sessions[VariantOf(last.o)][t] # NoSession

\* the parameters of a query string: its pieces between '&', each as its pieces
\* between '='
Parameters(query) ==
  [i \in 1..Len(split(query, "&")) |-> split(split(query, "&")[i], "=")]

C27_QueryTokenIsDecoded ==
  [][\A o \in Objs :
       (last'.op = "LoadSessionQuery" /\ last'.o = o /\ last'.found)
       => LET parameters == Parameters(last'.query)
              token_label == CharsOf[props.session_token_label]
          IN \E i \in DOMAIN parameters :
               /\ Len(parameters[i]) > 1
               /\ parameters[i][1] = token_label
               /\ last'.tok = Text(decode(parameters[i][2]))
               /\ \E r \in {LoadSessionText(sessions[VariantOf(o)], obj[o],
                                            Text(decode(parameters[i][2])), now)} :
                    r.s = obj'[o] /\ r.m = sessions'[VariantOf(o)] /\ r.ok = last'.ok]_vars

\* C28: the collision retry leaves other sessions untouched: an Open() that draws
\* a token of a stored session neither removes that session's entry nor runs the
\* close callbacks and RemoveAll() for that token, and the session is loaded as
\* before once Open() has returned.
C28_CollisionLeavesOthers ==
  [][\A o \in Objs :
       (last'.op = "Open" /\ last'.o = o)
       => \A t \in Tokens \ {obj[o].token} :
            sessions[VariantOf(o)][t] # NoSession
            => /\ sessions'[VariantOf(o)][t] = sessions[VariantOf(o)][t]
               /\ \A i \in 1..Len(last'.closed) : last'.closed[i] # t
               /\ \A virgin \in {At(NewSession(VariantOf(o), props), o)} :
                    HandlerLoadSession(sessions'[VariantOf(o)], t, virgin, now)
                      = HandlerLoadSession(sessions[VariantOf(o)], t, virgin, now)]_vars

\* C29: sweep versus concurrent refresh: in no interleaving does the sweep remove
\* an entry whose snapshot is valid at the moment of the removal; an entry saved
\* again between the scan and the sweep's Close() is still there afterwards.
C29_SweepSparesRefreshed ==
  [][(thr[Sweeper].pc = "locked" /\ thr'[Sweeper].pc = "Close")
     => \A t \in Tokens :
          ( /\ sessions["SimpleSession"][t] # NoSession
            /\ IsValid(sessions["SimpleSession"][t], now) )
          => sessions'["SimpleSession"][t] = sessions["SimpleSession"][t]]_vars

\* C30: sweep snapshot lifetime: every snapshot the sweep calls Close() on is,
\* at the call, the snapshot the map owns under its token: nothing between the
\* scan and the call has replaced or released it.
C30_SweepClosesOwnedSnapshots ==
  [][( /\ thr[Sweeper].pc = "Close"
       /\ thr[Sweeper].to_erase # <<>>
       /\ thr'[Sweeper] # thr[Sweeper] )
     => \A s \in {Head(thr[Sweeper].to_erase)} :
          sessions["SimpleSession"][s.token] = s]_vars

\* C31: close callbacks and role clearing run for opened sessions only: an Open()
\* on a session object that holds no token runs no close callback and no
\* RemoveAll(), and erases no entry of the store.
C31_OpenOfNewSessionClosesNothing ==
  [][\A o \in Objs :
       (last'.op = "Open" /\ last'.o = o /\ obj[o].token = NoToken)
       => /\ last'.closed = <<>>
          /\ \A t \in Tokens :
               sessions[VariantOf(o)][t] # NoSession
               => sessions'[VariantOf(o)][t] = sessions[VariantOf(o)][t]]_vars

====
